---- MODULE Spec2Model ----
(***************************************************************************)
(* Model of main.py, the AniDB -> MeiliSearch indexer.                     *)
(*                                                                         *)
(* Three specifications share the module:                                  *)
(*   Spec      one or two runs of main() against a sink and a catalog;     *)
(*   NormSpec  the body of the for loop of parse_and_index (lines 104-145) *)
(*             applied to one arbitrary bounded <anime> entry;             *)
(*   KeySpec   the two field-key expressions (lines 127 and 142) applied   *)
(*             to two arbitrary bounded (role, language, occurrence).      *)
(*                                                                         *)
(* Text that the code inspects character by character (language tags, the  *)
(* formatted keys before slugify) is a sequence of one-character strings;  *)
(* text that the code only copies (title texts) is a plain string.         *)
(*                                                                         *)
(* What the model takes from the environment:                              *)
(*   - every <title> element has a text node, so firstChild.nodeValue      *)
(*     (lines 119, 128, 137) is a string;                                  *)
(*   - any call on the MeiliSearch client may raise; a call that raises    *)
(*     changes nothing in the sink;                                        *)
(*   - the sink keeps the documents of every accepted add_documents call,  *)
(*     in arrival order, until delete_all_documents empties the index.     *)
(***************************************************************************)
EXTENDS Integers, Sequences, FiniteSets, TLC

VARIABLES
    \* ---- the environment of a run
    fileExists,    \* whether "anime-titles.xml" can be opened (line 85)
    catalog,       \* the content of the file: how many <anime> elements it
                   \* holds and which of them (if any) has no main title
    indexExists,   \* whether the sink lists an index with the given uid (line 48)
    store,         \* the documents the sink's index holds, in arrival order
    \* ---- the process
    pc,            \* position of main() / parse_and_index()
    message,       \* how the process ended: "" while it runs
    index,         \* the enumerate counter of the for loop (line 103)
    data_queue,    \* the list of documents waiting to be sent (line 100)
    \* ---- observation
    calls,         \* the sink operations this run invoked, in order
    run,           \* the number of the run: 1 for the first run of main()
    firstStore,    \* the index contents before the first run
    doneStores,    \* the index contents at each successful completion
    \* ---- NormSpec
    entry,         \* the <anime> element handed to the loop body
    doc,           \* what the loop body made of it
    \* ---- KeySpec
    triples,       \* two (role, language, occurrence) triples
    keys           \* their field keys

vars == <<fileExists, catalog, indexExists, store, pc, message, index,
          data_queue, calls, run, firstStore, doneStores,
          entry, doc, triples, keys>>

driverVars == <<fileExists, catalog, indexExists, store, pc, message, index,
                data_queue, calls, run, firstStore, doneStores>>

normVars == <<entry, doc>>

keyVars == <<triples, keys>>

-----------------------------------------------------------------------------
(* Bounds and program constants *)

\* line 152: a batch is sent when the counter is a multiple of 500
BatchSize == 500

\* the largest catalog of Spec holds FullBatches full batches and Partial more
FullBatches == 2

Partial == 200

\* the program is run at most MaxRuns times in succession
MaxRuns == 2

\* an entry of NormSpec has at most MaxTitles <title> elements
MaxTitles == 5

\* a language tag of KeySpec has at most MaxTagLen characters
MaxTagLen == 2

\* occurrence numbers of KeySpec range over 1..MaxOccurrence
MaxOccurrence == 2

-----------------------------------------------------------------------------
(* Characters and strings *)

UpperChars == <<"A","B","C","D","E","F","G","H","I","J","K","L","M",
                "N","O","P","Q","R","S","T","U","V","W","X","Y","Z">>

LowerChars == <<"a","b","c","d","e","f","g","h","i","j","k","l","m",
                "n","o","p","q","r","s","t","u","v","w","x","y","z">>

DigitChars == <<"0","1","2","3","4","5","6","7","8","9">>

Range(s) == {s[i] : i \in DOMAIN s}

\* str.lower() on the upper-case letters
LowerOf ==
    [c \in Range(UpperChars) |->
        LowerChars[CHOOSE i \in DOMAIN UpperChars : UpperChars[i] = c]]

\* str.lower() on one character
Lower(c) == IF c \in DOMAIN LowerOf THEN LowerOf[c] ELSE c

\* the characters slugify keeps: the complement of its pattern [^-a-z0-9]
SlugChars == Range(LowerChars) \cup Range(DigitChars) \cup {"-"}

SlugChar(c) == c \in SlugChars

\* the decimal digits of a positive integer, as an f-string formats it
RECURSIVE IntToChars(_)
IntToChars(n) ==
    IF n < 10 THEN <<DigitChars[n + 1]>>
    ELSE IntToChars(n \div 10) \o <<DigitChars[(n % 10) + 1]>>

\* a sequence of characters as one string
RECURSIVE Join(_)
Join(cs) == IF cs = <<>> THEN "" ELSE Head(cs) \o Join(Tail(cs))

\* re.sub("-{2,}", "-", s)
RECURSIVE CollapseDashes(_)
CollapseDashes(s) ==
    IF Len(s) < 2 THEN s
    ELSE IF s[1] = "-" /\ s[2] = "-" THEN CollapseDashes(Tail(s))
    ELSE <<s[1]>> \o CollapseDashes(Tail(s))

\* s.strip("-")
RECURSIVE StripLeft(_)
StripLeft(s) == IF s # <<>> /\ Head(s) = "-" THEN StripLeft(Tail(s)) ELSE s

RECURSIVE StripRight(_)
StripRight(s) ==
    IF s # <<>> /\ s[Len(s)] = "-" THEN StripRight(SubSeq(s, 1, Len(s) - 1))
    ELSE s

StripDashes(s) == StripRight(StripLeft(s))

\* slugify(text, separator=sep) of python-slugify on ASCII text: lowercase,
\* every character outside [-a-z0-9] becomes "-", runs of "-" collapse to
\* one, leading and trailing "-" are stripped, "-" becomes the separator.
slugify(text, sep) ==
    LET lowered  == [i \in DOMAIN text |-> Lower(text[i])]
        dashed   == [i \in DOMAIN text |->
                        IF SlugChar(lowered[i]) THEN lowered[i] ELSE "-"]
        stripped == StripDashes(CollapseDashes(dashed))
    IN  [i \in DOMAIN stripped |->
            IF stripped[i] = "-" THEN sep ELSE stripped[i]]

OfficialPrefix == <<"o","f","f","i","c","i","a","l","_">>

ShortPrefix == <<"s","h","o","r","t","_">>

\* line 127: slugify(f"official_{language}", separator="_")
official_key(language) == Join(slugify(OfficialPrefix \o language, "_"))

\* the short key without its occurrence number
ShortKeyWithoutIndex(language, short_name_index) ==
    Join(slugify(ShortPrefix \o language, "_"))

\* line 142: slugify(f"short_{language}_{short_name_index}", separator="_")
short_key(language, short_name_index) ==
    Join(slugify(ShortPrefix \o language \o <<"_">>
                     \o IntToChars(short_name_index), "_"))

-----------------------------------------------------------------------------
(* The loop body of parse_and_index: one <anime> element to one document *)

\* a <title> element: its type and xml:lang attributes and its text
Title(type, lang, text) == [type |-> type, lang |-> lang, text |-> text]

\* an <anime> element: its aid attribute and its <title> children
Anime(aid, titles) == [aid |-> aid, titles |-> titles]

\* dict assignment data[key] = value: a later write replaces an earlier one
Put(d, key, value) == (key :> value) @@ d

\* an uncaught exception in the loop body: the process dies with a traceback
StopIteration == "StopIteration"

\* line 111: whether next(...) finds a tag of type "main"
HasMain(titles) == \E i \in DOMAIN titles : titles[i].type = "main"

\* line 111: next(tag for tag in titles if type == "main"), the first one
main_title(titles) ==
    titles[CHOOSE i \in DOMAIN titles :
              /\ titles[i].type = "main"
              /\ \A j \in 1..(i - 1) : titles[j].type # "main"]

\* line 114: [tag for tag in titles if type == "official"]
officials(titles) == SelectSeq(titles, LAMBDA t : t.type = "official")

\* the dict without the identifier
InitialDataNoId(anime_id, main) == [main |-> main.text]

\* lines 117-120
initial_data(anime_id, main) == [anime_id |-> anime_id, main |-> main.text]

\* the short titles collected without the test on xml:lang
ShortNamesAnyLanguage(titles, language) ==
    LET shorts == SelectSeq(titles, LAMBDA t : t.type = "short")
    IN  [i \in DOMAIN shorts |-> shorts[i].text]

\* lines 132-137: the texts of the short titles of the language, in order
short_names_list(titles, language) ==
    LET shorts == SelectSeq(titles,
                      LAMBDA t : t.type = "short" /\ t.lang = language)
    IN  [i \in DOMAIN shorts |-> shorts[i].text]

\* lines 140-145: enumerate(short_names_list, start=1) from position i on
RECURSIVE add_short_names(_, _, _, _)
add_short_names(d, language, names, i) ==
    IF i > Len(names) THEN d
    ELSE add_short_names(Put(d, short_key(language, i), names[i]),
                         language, names, i + 1)

\* lines 122-145: for official in officials, from position i on
RECURSIVE add_officials(_, _, _, _)
add_officials(d, offs, titles, i) ==
    IF i > Len(offs) THEN d
    ELSE LET language == offs[i].lang
             d1 == Put(d, official_key(language), offs[i].text)
             d2 == add_short_names(d1, language,
                                   short_names_list(titles, language), 1)
         IN  add_officials(d2, offs, titles, i + 1)

\* lines 104-145: the document of one <anime>, or the exception it raises
anime_data(anime) ==
    IF ~HasMain(anime.titles) THEN StopIteration
    ELSE add_officials(initial_data(anime.aid, main_title(anime.titles)),
                       officials(anime.titles), anime.titles, 1)

-----------------------------------------------------------------------------
(* The catalogs, entries and keys the specifications range over *)

en == <<"e","n">>

EN == <<"E","N">>

xjat == <<"x","-","j","a","t">>

\* title lists the catalogs of Spec are made of
SampleTitles ==
    << <<Title("main", xjat, "Foo")>>,
       <<Title("main", xjat, "Foo"), Title("official", en, "Foo EN")>>,
       <<Title("short", en, "A"), Title("official", en, "Official"),
         Title("main", xjat, "Bar"), Title("short", en, "B")>>,
       <<Title("syn", en, "Baz"), Title("main", xjat, "Qux"),
         Title("official", xjat, "Qux JAT"), Title("short", EN, "Q")>> >>

\* a title list with no main title
NoMainTitles == <<Title("official", en, "Lost"), Title("short", en, "L")>>

\* the catalog of n entries with aid 1..n: entry number bad (if any) has no
\* main title, the others take their titles from SampleTitles in turn
Catalog(n, bad) ==
    [i \in 1..n |->
        Anime(i, IF i = bad THEN NoMainTitles
                 ELSE SampleTitles[(i % Len(SampleTitles)) + 1])]

CatalogSizes ==
    {0, 1, BatchSize, BatchSize + 1, FullBatches * BatchSize + Partial}

Catalogs ==
    {c \in [size : CatalogSizes, bad : {0, 1, BatchSize + 1}] :
        c.bad <= c.size}

NoCatalog == [size |-> 0, bad |-> 0]

\* line 90: the <anime> elements of the file, in source order
animes == Catalog(catalog.size, catalog.bad)

\* line 93
total_animes == catalog.size

\* what an index may hold before the first run
StaleDocs == <<[anime_id |-> 1, main |-> "Stale"],
               [anime_id |-> 999999, main |-> "Gone"]>>

-----------------------------------------------------------------------------
(* NormSpec: the loop body on one arbitrary entry *)

Langs == {en, EN, xjat}

AnimeIds == {7}

\* the type and language of a <title>: main, a type the code ignores, and
\* official and short titles of every language
TitleKinds ==
    {[type |-> "main", lang |-> xjat], [type |-> "syn", lang |-> en]}
    \cup {[type |-> t, lang |-> l] : t \in {"official", "short"}, l \in Langs}

\* the text of the title at position p: "t1", "t2", ...
TextAt(p) == Join(<<"t">> \o IntToChars(p))

\* the title list whose p-th title has the type and language of kinds[p]
TitleList(kinds) ==
    [p \in DOMAIN kinds |-> Title(kinds[p].type, kinds[p].lang, TextAt(p))]

Pending == [state |-> "pending", data |-> <<>>]

Raised(exception) == [state |-> "raised", data |-> exception]

Returned(d) == [state |-> "ok", data |-> d]

NormIdle == entry = Anime(0, <<>>) /\ doc = Pending

KeyIdle == triples = <<>> /\ keys = <<>>

\* no run of main() takes place
DriverIdle ==
    /\ fileExists = FALSE
    /\ catalog = NoCatalog
    /\ indexExists = FALSE
    /\ store = <<>>
    /\ pc = "idle"
    /\ message = ""
    /\ index = 0
    /\ data_queue = <<>>
    /\ calls = <<>>
    /\ run = 0
    /\ firstStore = <<>>
    /\ doneStores = <<>>

NormInit ==
    /\ DriverIdle
    /\ KeyIdle
    /\ \E aid \in AnimeIds, n \in 0..MaxTitles :
          \E kinds \in [1..n -> TitleKinds] :
              entry = Anime(aid, TitleList(kinds))
    /\ doc = Pending

\* lines 104-145 on `entry`
normalize_entry ==
    /\ doc = Pending
    /\ doc' = IF HasMain(entry.titles) THEN Returned(anime_data(entry))
              ELSE Raised(StopIteration)
    /\ UNCHANGED <<entry, driverVars, keyVars>>

NormNext == normalize_entry

NormSpec == NormInit /\ [][NormNext]_vars

-----------------------------------------------------------------------------
(* KeySpec: the field keys of two (role, language, occurrence) triples *)

TagChars == {"n", "N", "-", "1"}

zhHans == <<"z","h","-","H","a","n","s">>

zhhans == <<"z","h","-","h","a","n","s">>

\* tags shaped like those of the catalog, with their respellings, and every
\* tag of at most MaxTagLen characters over TagChars
Tags ==
    {zhHans, zhhans, en, EN, xjat,
     <<"n","-","1">>, <<"n","-","-","1">>, <<"n","1">>}
    \cup UNION {[1..n -> TagChars] : n \in 0..MaxTagLen}

\* an official title has no occurrence number: 0 stands for its absence
Triples ==
    {[role |-> "official", language |-> l, occurrence |-> 0] : l \in Tags}
    \cup {[role |-> "short", language |-> l, occurrence |-> n] :
             l \in Tags, n \in 1..MaxOccurrence}

\* lines 127 and 142
field_key(t) ==
    IF t.role = "official" THEN official_key(t.language)
    ELSE short_key(t.language, t.occurrence)

KeyInit ==
    /\ DriverIdle
    /\ NormIdle
    /\ triples \in Triples \X Triples
    /\ keys = <<>>

make_keys ==
    /\ keys = <<>>
    /\ keys' = <<field_key(triples[1]), field_key(triples[2])>>
    /\ UNCHANGED <<triples, driverVars, normVars>>

KeyNext == make_keys

KeySpec == KeyInit /\ [][KeyNext]_vars

-----------------------------------------------------------------------------
(* main(): create_connection, get_or_create_index, parse_and_index *)

NoInstance == "No instance of MeiliSearch is running"

FileNotFound == "The file anime-titles.xml hasn't been found"

NoAnime == "No anime found during parsing"

IndexingError == "An error occurs while indexing to MeiliSearch"

Traceback == "Traceback"

Finished == "Indexed all animes"

\* one operation invoked on the sink, and whether it succeeded
Call(op, documents, ok) == [op |-> op, documents |-> documents, ok |-> ok]

\* sys.exit(msg), or an uncaught exception: the process ends
Exit(msg) == pc' = "exit" /\ message' = msg

Goto(label) == pc' = label /\ message' = message

Init ==
    /\ fileExists \in BOOLEAN
    /\ catalog \in IF fileExists THEN Catalogs ELSE {NoCatalog}
    /\ indexExists \in BOOLEAN
    /\ store \in IF indexExists THEN {<<>>, StaleDocs} ELSE {<<>>}
    /\ pc = "create_connection"
    /\ message = ""
    /\ index = 0
    /\ data_queue = <<>>
    /\ calls = <<>>
    /\ run = 1
    /\ firstStore = store
    /\ doneStores = <<>>
    /\ NormIdle
    /\ KeyIdle

\* create_connection with the exception swallowed instead of sys.exit
CreateConnectionGoesOn(ok) ==
    /\ pc = "create_connection"
    /\ calls' = Append(calls, Call("health", <<>>, ok))
    /\ Goto("get_indexes")
    /\ UNCHANGED <<fileExists, catalog, indexExists, store, index, data_queue,
                   run, firstStore, doneStores, normVars, keyVars>>

\* lines 24-32: client.health(); sys.exit on any exception
create_connection(ok) ==
    /\ pc = "create_connection"
    /\ calls' = Append(calls, Call("health", <<>>, ok))
    /\ IF ok THEN Goto("get_indexes") ELSE Exit(NoInstance)
    /\ UNCHANGED <<fileExists, catalog, indexExists, store, index, data_queue,
                   run, firstStore, doneStores, normVars, keyVars>>

\* line 48: client.get_indexes(), searched for the uid
get_indexes(ok) ==
    /\ pc = "get_indexes"
    /\ calls' = Append(calls, Call("get_indexes", <<>>, ok))
    /\ IF ~ok THEN Exit(Traceback)
       ELSE IF indexExists THEN Goto("get_index") ELSE Goto("create_index")
    /\ UNCHANGED <<fileExists, catalog, indexExists, store, index, data_queue,
                   run, firstStore, doneStores, normVars, keyVars>>

\* lines 50-51: the index exists
get_index(ok) ==
    /\ pc = "get_index"
    /\ calls' = Append(calls, Call("get_index", <<>>, ok))
    /\ IF ok THEN Goto("delete_all_documents") ELSE Exit(Traceback)
    /\ UNCHANGED <<fileExists, catalog, indexExists, store, index, data_queue,
                   run, firstStore, doneStores, normVars, keyVars>>

\* lines 52-53: the index does not exist
create_index(ok) ==
    /\ pc = "create_index"
    /\ calls' = Append(calls, Call("create_index", <<>>, ok))
    /\ indexExists' = ok
    /\ IF ok THEN Goto("delete_all_documents") ELSE Exit(Traceback)
    /\ UNCHANGED <<fileExists, catalog, store, index, data_queue,
                   run, firstStore, doneStores, normVars, keyVars>>

\* get_or_create_index with the documents left in place
DeleteNothing(ok) ==
    /\ pc = "delete_all_documents"
    /\ calls' = Append(calls, Call("delete_all_documents", <<>>, ok))
    /\ store' = store
    /\ IF ok THEN Goto("parse") ELSE Exit(Traceback)
    /\ UNCHANGED <<fileExists, catalog, indexExists, index, data_queue,
                   run, firstStore, doneStores, normVars, keyVars>>

\* lines 55-58: meilisearch_index.delete_all_documents()
delete_all_documents(ok) ==
    /\ pc = "delete_all_documents"
    /\ calls' = Append(calls, Call("delete_all_documents", <<>>, ok))
    /\ store' = IF ok THEN <<>> ELSE store
    /\ IF ok THEN Goto("parse") ELSE Exit(Traceback)
    /\ UNCHANGED <<fileExists, catalog, indexExists, index, data_queue,
                   run, firstStore, doneStores, normVars, keyVars>>

\* lines 83-100: parse the file, count the entries, start with an empty queue
parse ==
    /\ pc = "parse"
    /\ IF ~fileExists THEN Exit(FileNotFound)
       ELSE IF total_animes = 0 THEN Exit(NoAnime)
       ELSE Goto("loop")
    /\ data_queue' = <<>>
    /\ index' = 0
    /\ UNCHANGED <<fileExists, catalog, indexExists, store, calls,
                   run, firstStore, doneStores, normVars, keyVars>>

\* lines 103-148: the next entry becomes a document at the end of the queue
loop_body ==
    /\ pc = "loop"
    /\ index < total_animes
    /\ index' = index + 1
    /\ IF HasMain(animes[index'].titles)
       THEN /\ data_queue' = Append(data_queue, anime_data(animes[index']))
            /\ Goto("batch")
       ELSE /\ data_queue' = data_queue
            /\ Exit(Traceback)
    /\ UNCHANGED <<fileExists, catalog, indexExists, store, calls,
                   run, firstStore, doneStores, normVars, keyVars>>

\* add_documents with the exception swallowed instead of sys.exit
AddDocumentsGoesOn(documents, ok, next) ==
    /\ calls' = Append(calls, Call("add_documents", documents, ok))
    /\ store' = IF ok THEN store \o documents ELSE store
    /\ Goto(next)

\* lines 61-72: meilisearch_index.add_documents(documents); sys.exit on any
\* exception, otherwise go on at `next`
add_documents(documents, ok, next) ==
    /\ calls' = Append(calls, Call("add_documents", documents, ok))
    /\ store' = IF ok THEN store \o documents ELSE store
    /\ IF ok THEN Goto(next) ELSE Exit(IndexingError)

\* lines 150-163: every 500th entry the queue is sent and reset
batch_sent(ok) ==
    /\ pc = "batch"
    /\ index % BatchSize = 0
    /\ add_documents(data_queue, ok, "loop")
    /\ data_queue' = IF ok THEN <<>> ELSE data_queue
    /\ UNCHANGED <<fileExists, catalog, indexExists, index,
                   run, firstStore, doneStores, normVars, keyVars>>

\* the test of line 152 inverted: the queue is sent when the counter is not a
\* multiple of 500
BatchSentWhenNotFull ==
    /\ pc = "batch"
    /\ index % BatchSize # 0
    /\ \E ok \in BOOLEAN :
          /\ add_documents(data_queue, ok, "loop")
          /\ data_queue' = IF ok THEN <<>> ELSE data_queue
    /\ UNCHANGED <<fileExists, catalog, indexExists, index,
                   run, firstStore, doneStores, normVars, keyVars>>

\* line 152: the counter is not a multiple of 500, nothing is sent
batch_not_full ==
    /\ pc = "batch"
    /\ index % BatchSize # 0
    /\ Goto("loop")
    /\ UNCHANGED <<fileExists, catalog, indexExists, store, index, data_queue,
                   calls, run, firstStore, doneStores, normVars, keyVars>>

\* line 103: the iteration is over
loop_end ==
    /\ pc = "loop"
    /\ index = total_animes
    /\ Goto("final")
    /\ UNCHANGED <<fileExists, catalog, indexExists, store, index, data_queue,
                   calls, run, firstStore, doneStores, normVars, keyVars>>

\* the loop is left without sending what is still in the queue
FinalAddForgotten(ok) ==
    /\ pc = "final"
    /\ Goto("finish")
    /\ UNCHANGED <<fileExists, catalog, indexExists, store, index, data_queue,
                   calls, run, firstStore, doneStores, normVars, keyVars>>

\* lines 165-167: after the loop the queue is sent once more, as it is
final_add(ok) ==
    /\ pc = "final"
    /\ add_documents(data_queue, ok, "finish")
    /\ UNCHANGED <<fileExists, catalog, indexExists, index, data_queue,
                   run, firstStore, doneStores, normVars, keyVars>>

\* lines 169-170: the finish message; main() returns
finish ==
    /\ pc = "finish"
    /\ pc' = "done"
    /\ message' = Finished
    /\ doneStores' = Append(doneStores, store)
    /\ UNCHANGED <<fileExists, catalog, indexExists, store, index, data_queue,
                   calls, run, firstStore, normVars, keyVars>>

\* the operator starts the program again after a successful run, with the
\* same file and the same sink
run_again ==
    /\ pc = "done"
    /\ run < MaxRuns
    /\ run' = run + 1
    /\ pc' = "create_connection"
    /\ message' = ""
    /\ index' = 0
    /\ data_queue' = <<>>
    /\ calls' = <<>>
    /\ UNCHANGED <<fileExists, catalog, indexExists, store, firstStore,
                   doneStores, normVars, keyVars>>

Next ==
    \/ \E ok \in BOOLEAN : create_connection(ok)
    \/ \E ok \in BOOLEAN : get_indexes(ok)
    \/ \E ok \in BOOLEAN : get_index(ok)
    \/ \E ok \in BOOLEAN : create_index(ok)
    \/ \E ok \in BOOLEAN : delete_all_documents(ok)
    \/ parse
    \/ loop_body
    \/ \E ok \in BOOLEAN : batch_sent(ok)
    \/ batch_not_full
    \/ loop_end
    \/ \E ok \in BOOLEAN : final_add(ok)
    \/ finish
    \/ run_again

Spec == Init /\ [][Next]_vars

-----------------------------------------------------------------------------
(* Claims about a run (Spec) *)

\* the add_documents calls of the run, in call order
AddCalls == SelectSeq(calls, LAMBDA c : c.op = "add_documents")

\* the operations invoked on the sink, in call order
Ops == [i \in DOMAIN calls |-> calls[i].op]

RECURSIVE Flatten(_)
Flatten(batches) ==
    IF batches = <<>> THEN <<>>
    ELSE Head(batches).documents \o Flatten(Tail(batches))

\* the documents of the whole catalog, in source order
CatalogDocs == [i \in 1..total_animes |-> anime_data(animes[i])]

\* ceil(n / d)
CeilDiv(n, d) == (n + d - 1) \div d

\* C1: when the catalog file is absent the run ends with the file-not-found
\* message and the index is untouched: neither create_index nor
\* delete_all_documents was invoked, and the index holds what it held.
C1_AbsentFileLeavesIndexUntouched ==
    (~fileExists /\ pc = "exit" /\ message = FileNotFound) =>
        /\ \A i \in DOMAIN calls :
              calls[i].op \notin {"create_index", "delete_all_documents"}
        /\ store = firstStore

\* C2: a run that completes on a catalog of N >= 1 entries has made exactly
\* ceil(N / 500) add_documents calls, none of them with an empty batch.
C2_CeilCallsNoEmptyBatch ==
    (pc = "done" /\ total_animes >= 1) =>
        /\ Len(AddCalls) = CeilDiv(total_animes, BatchSize)
        /\ \A i \in DOMAIN AddCalls : AddCalls[i].documents # <<>>

\* C3: when a run completes, the batches passed to add_documents, put end to
\* end in call order, are the documents of the catalog in source order.
C3_BatchesAreTheCatalogInOrder ==
    pc = "done" => Flatten(AddCalls) = CatalogDocs

C3_Witness ==
    /\ pc = "done"
    /\ total_animes = FullBatches * BatchSize + Partial
    /\ Len(AddCalls) = FullBatches + 1
    /\ Len(AddCalls[Len(AddCalls)].documents) = Partial

\* C4: the sink operations of a run are, in order: the health check, the
\* listing of the indexes, get_index or create_index, delete_all_documents
\* once, then only add_documents; nothing follows a failed health check and
\* no entry is streamed before delete_all_documents was invoked.
C4_SinkOperationsInOrder ==
    LET n == Len(calls) IN
    /\ n >= 1 => Ops[1] = "health"
    /\ (n >= 1 /\ ~calls[1].ok) => n = 1
    /\ n >= 2 => Ops[2] = "get_indexes"
    /\ n >= 3 => Ops[3] \in {"get_index", "create_index"}
    /\ n >= 4 => Ops[4] = "delete_all_documents"
    /\ \A i \in 5..n : Ops[i] = "add_documents"
    /\ pc \in {"parse", "loop", "batch", "final", "finish", "done"} =>
          (n >= 4 /\ calls[4].ok)

C4_Witness ==
    /\ pc = "done"
    /\ Len(calls) = 4 + FullBatches + 1
    /\ Ops[3] = "create_index"

\* a fatal condition of streaming has occurred: an add_documents call failed,
\* the file was parsed (delete_all_documents returned and the process is past
\* the parsing) and holds no entry, or the entry taken last has no main title
FatalCondition ==
    \/ \E i \in DOMAIN calls : calls[i].op = "add_documents" /\ ~calls[i].ok
    \/ /\ fileExists
       /\ total_animes = 0
       /\ Len(calls) >= 4
       /\ calls[4].ok
       /\ pc # "parse"
    \/ index >= 1 /\ ~HasMain(animes[index].titles)

\* C5: once a fatal condition of streaming has occurred the process has
\* ended with a diagnostic, not with the finish message, and nothing happens
\* after it: no sink operation, no retry, no further entry.
C5_FatalEndsTheRun ==
    /\ [](FatalCondition =>
            (pc = "exit" /\ message \in {IndexingError, NoAnime, Traceback}))
    /\ [][~FatalCondition]_vars

C5_Witness ==
    /\ pc = "exit"
    /\ message = IndexingError
    /\ index = BatchSize
    /\ total_animes > BatchSize
    /\ Len(AddCalls) = 1

\* C8: every run that completes leaves in the index exactly what the first
\* completed run left: no document from before the run, none twice.
C8_SecondRunSameDocuments ==
    pc = "done" =>
        /\ \A r \in DOMAIN doneStores : doneStores[r] = store
        /\ Range(store) \cap Range(firstStore) = {}
        /\ Cardinality(Range(store)) = Len(store)
        /\ Len(store) = total_animes

C8_Witness ==
    /\ pc = "done"
    /\ run = 2
    /\ Len(doneStores) = 2
    /\ firstStore = StaleDocs
    /\ total_animes > BatchSize

\* C10: the queue never holds more than 500 documents, no batch passed to
\* add_documents is larger than 500, every batch but the last one passed is
\* of exactly 500, and the queue is empty right after a full batch was
\* handed over.
C10_QueueAndBatchesBounded ==
    /\ [](/\ Len(data_queue) <= BatchSize
          /\ \A i \in DOMAIN AddCalls :
                /\ Len(AddCalls[i].documents) <= BatchSize
                /\ i < Len(AddCalls) =>
                      Len(AddCalls[i].documents) = BatchSize)
    /\ [][(/\ pc = "batch"
           /\ Len(calls') > Len(calls)
           /\ calls'[Len(calls')].ok) => data_queue' = <<>>]_vars

C10_Witness ==
    /\ pc = "loop"
    /\ index = FullBatches * BatchSize
    /\ data_queue = <<>>
    /\ Len(AddCalls) = FullBatches
    /\ Len(AddCalls[1].documents) = BatchSize

-----------------------------------------------------------------------------
(* Claims about the document of one entry (NormSpec) *)

\* the texts of the entry's short titles of language l, in source order
ShortTexts(l) ==
    LET shorts == SelectSeq(entry.titles,
                      LAMBDA t : t.type = "short" /\ t.lang = l)
    IN  [i \in DOMAIN shorts |-> shorts[i].text]

HasOfficial(l) ==
    \E i \in DOMAIN entry.titles :
        entry.titles[i].type = "official" /\ entry.titles[i].lang = l

\* the fields of the document other than anime_id and main
TitleFields == DOMAIN doc.data \ {"anime_id", "main"}

\* The titles of an entry of NormSpec have pairwise different texts, so the
\* text of a field tells which title it was taken from.
\* If l has an official title, the i-th short title of l is held by the field
\* short_key(l, i) and by no other field; if it has none, no field holds a
\* short title of l.
ShortFieldsAsClaimed(l) ==
    LET texts == ShortTexts(l)
        d == doc.data
    IN  IF HasOfficial(l)
        THEN /\ \A i \in DOMAIN texts :
                   /\ short_key(l, i) \in DOMAIN d
                   /\ d[short_key(l, i)] = texts[i]
             /\ \A key \in TitleFields :
                   d[key] \in Range(texts) =>
                       \E i \in DOMAIN texts :
                           key = short_key(l, i) /\ d[key] = texts[i]
        ELSE \A key \in TitleFields : d[key] \notin Range(texts)

\* another language tag of an official title of the entry gives the same keys
\* as l: the two tags differ only in what slugify erases (en / EN)
Respelled(l) ==
    \E i \in DOMAIN entry.titles :
        /\ entry.titles[i].type = "official"
        /\ entry.titles[i].lang # l
        /\ slugify(entry.titles[i].lang, "_") = slugify(l, "_")

\* C6 as stated: for every language L of every entry, the document holds
\* exactly short_L_1 .. short_L_k with the texts of the k short titles of L in
\* source order if L has an official title, and no short field of L otherwise.
C6_ShortFieldsOfEveryLanguage ==
    doc.state = "ok" => \A l \in Langs : ShortFieldsAsClaimed(l)

\* C6 amended: the same, for every language L whose keys are not shared with a
\* differently spelled language tag of an official title of the entry.
C6_ShortFieldsUnlessRespelled ==
    doc.state = "ok" => \A l \in Langs : ~Respelled(l) => ShortFieldsAsClaimed(l)

\* two short titles of en, one before and one after the official title of en
C6_Witness ==
    /\ doc.state = "ok"
    /\ HasOfficial(en)
    /\ ~Respelled(en)
    /\ Len(ShortTexts(en)) = 2
    /\ \E i, j, k \in DOMAIN entry.titles :
          /\ i < j /\ j < k
          /\ entry.titles[i].type = "short" /\ entry.titles[i].lang = en
          /\ entry.titles[j].type = "official" /\ entry.titles[j].lang = en
          /\ entry.titles[k].type = "short" /\ entry.titles[k].lang = en
    /\ doc.data.short_en_1 = ShortTexts(en)[1]
    /\ doc.data.short_en_2 = ShortTexts(en)[2]

TypesOf(titles) == {titles[i].type : i \in DOMAIN titles}

\* the text of the entry's first main title
MainText ==
    LET i == CHOOSE i \in DOMAIN entry.titles :
                 /\ entry.titles[i].type = "main"
                 /\ \A j \in 1..(i - 1) : entry.titles[j].type # "main"
    IN  entry.titles[i].text

\* the entry has exactly one official title, of language en, and no short one
OneOfficialEn ==
    /\ "short" \notin TypesOf(entry.titles)
    /\ Cardinality({i \in DOMAIN entry.titles :
                       entry.titles[i].type = "official"}) = 1
    /\ \A i \in DOMAIN entry.titles :
          entry.titles[i].type = "official" => entry.titles[i].lang = en

OfficialEnText ==
    entry.titles[CHOOSE i \in DOMAIN entry.titles :
                    entry.titles[i].type = "official"].text

\* the document as C7 describes it, with the identifier under the name idKey
DocumentAsClaimed(idKey) ==
    LET d == doc.data IN
    /\ ("official" \notin TypesOf(entry.titles)
          /\ "short" \notin TypesOf(entry.titles)) =>
          /\ DOMAIN d = {idKey, "main"}
          /\ d[idKey] = entry.aid
          /\ d["main"] = MainText
    /\ OneOfficialEn =>
          /\ DOMAIN d = {idKey, "main", "official_en"}
          /\ d[idKey] = entry.aid
          /\ d["main"] = MainText
          /\ d["official_en"] = OfficialEnText

\* C7 as stated: an entry with a main title and no official or short title
\* gives a document with exactly the fields id and main; with one official en
\* title, exactly id, main and official_en.
C7_FieldsIdAndMain ==
    doc.state = "ok" => DocumentAsClaimed("id")

\* C7 amended: the identifier is held by the field anime_id: the fields are
\* exactly anime_id and main, and anime_id, main and official_en.
C7_FieldsAnimeIdAndMain ==
    doc.state = "ok" => DocumentAsClaimed("anime_id")

\* a main title behind a title the code ignores, and one official en title
C7_Witness ==
    /\ doc.state = "ok"
    /\ OneOfficialEn
    /\ entry.titles[1].type = "syn"
    /\ entry.aid = 7
    /\ doc.data = [anime_id |-> 7, main |-> MainText,
                   official_en |-> OfficialEnText]

-----------------------------------------------------------------------------
(* Claims about the field keys (KeySpec) *)

\* the tag is made of letters, digits and hyphens, begins and ends with a
\* letter or digit and has no two hyphens in a row (en, x-jat, zh-Hans)
WellFormed(l) ==
    LET lowered == [i \in DOMAIN l |-> Lower(l[i])]
    IN  l # <<>> /\ slugify(lowered, "-") = lowered

\* the tag is well formed and has no upper-case letter
Canonical(l) == l # <<>> /\ slugify(l, "-") = l

SameKeyPart(a, b) ==
    /\ a.role = b.role
    /\ a.occurrence = b.occurrence
    /\ slugify(a.language, "_") = slugify(b.language, "_")

\* C9 as stated, over well-formed tags of alphanumerics and hyphens: two
\* distinct triples never get the same key.
C9_KeysInjective ==
    (/\ keys # <<>>
     /\ WellFormed(triples[1].language)
     /\ WellFormed(triples[2].language)
     /\ triples[1] # triples[2]) => keys[1] # keys[2]

\* C9 amended: two triples get the same key exactly when they have the same
\* role and occurrence and their language tags are equal after slugify's
\* lower-casing and hyphen handling; so distinct triples whose tags are well
\* formed and lower-case never get the same key.
C9_KeysInjectiveUpToSlug ==
    keys # <<>> =>
        /\ keys[1] = keys[2] <=> SameKeyPart(triples[1], triples[2])
        /\ (/\ Canonical(triples[1].language)
            /\ Canonical(triples[2].language)
            /\ triples[1] # triples[2]) => keys[1] # keys[2]

\* two canonical tags that differ only by a hyphen, same role and occurrence
C9_Witness ==
    /\ keys = <<"short_n_1_2", "short_n1_2">>
    /\ triples[1].language = <<"n","-","1">>
    /\ triples[2].language = <<"n","1">>
    /\ triples[1].occurrence = 2

====
